---- MODULE Spec2Model ----
(***************************************************************************)
(* Model of the visitor-registration chat front-end: the message-intent   *)
(* classifier as it is written three times (CardQuestion, ChatBubble,     *)
(* shouldShowInputField).  Texts are real strings; the string primitives  *)
(* of the source (toLowerCase, includes, split, trim, join, the           *)
(* /^\d+\./ test) are computed character by character.                    *)
(***************************************************************************)
EXTENDS Integers, Sequences, FiniteSets, TLC

VARIABLES message, pc, card, bubble, showInput, pressed, sent,
          counter,     \* the classifier's local counter, as its last run left it
          turn,        \* how many turns have been shown so far
          first,       \* the first turn shown and the view it got
          previous,    \* the turn shown before the current one
          messages,    \* ChatState.messages
          currentStep, \* ChatState.currentStep
          visitorInfo, \* ChatState.visitorInfo
          isLoading,   \* ChatState.isLoading
          calls,       \* the handleSend calls made so far, with their requests
          location,    \* window.location: "/" is the chat, "/login" the login page
          redirect,    \* sessionStorage auth_redirect
          mounted      \* whether App's authentication check on mount has returned

vars == <<message, pc, card, bubble, showInput, pressed, sent, counter, turn, first, previous,
          messages, currentStep, visitorInfo, isLoading, calls, location, redirect, mounted>>

chat == <<messages, currentStep, visitorInfo, isLoading, calls, location, redirect, mounted>>

history == <<turn, first, previous>>

(***************************************************************************)
(* String primitives of the source language.                               *)
(***************************************************************************)

CharAt(s, i) == SubSeq(s, i, i)

UpperCase == "ABCDEFGHIJKLMNOPQRSTUVWXYZ"

LowerCase == "abcdefghijklmnopqrstuvwxyz"

LowerMap == [c \in {CharAt(UpperCase, i) : i \in 1..Len(UpperCase)} |->
               CharAt(LowerCase, CHOOSE i \in 1..Len(UpperCase) : CharAt(UpperCase, i) = c)]

LowerChar(c) == IF c \in DOMAIN LowerMap THEN LowerMap[c] ELSE c

\* s.toLowerCase(), computed by halves to keep the recursion shallow.
RECURSIVE toLowerCase(_)
toLowerCase(s) ==
  IF Len(s) <= 1 THEN LowerChar(s)
  ELSE LET h == Len(s) \div 2
       IN  toLowerCase(SubSeq(s, 1, h)) \o toLowerCase(SubSeq(s, h + 1, Len(s)))

includes(s, p) == \E i \in 1..(Len(s) - Len(p) + 1) : SubSeq(s, i, i + Len(p) - 1) = p

startsWith(s, p) == Len(p) <= Len(s) /\ SubSeq(s, 1, Len(p)) = p

WhiteSpace == {" ", "\t", "\n", "\r"}

RECURSIVE trimStart(_)
trimStart(s) ==
  IF s # "" /\ CharAt(s, 1) \in WhiteSpace THEN trimStart(SubSeq(s, 2, Len(s))) ELSE s

RECURSIVE trimEnd(_)
trimEnd(s) ==
  IF s # "" /\ CharAt(s, Len(s)) \in WhiteSpace THEN trimEnd(SubSeq(s, 1, Len(s) - 1)) ELSE s

trim(s) == trimEnd(trimStart(s))

\* s.split(sep).filter(Boolean): the pieces of s that are not empty.
RECURSIVE splitTruthy(_, _)
splitTruthy(s, sep) ==
  IF \E i \in 1..Len(s) : CharAt(s, i) = sep
  THEN LET i == CHOOSE k \in 1..Len(s) :
                 CharAt(s, k) = sep /\ \A j \in 1..(k - 1) : CharAt(s, j) # sep
       IN  (IF i = 1 THEN <<>> ELSE <<SubSeq(s, 1, i - 1)>>)
             \o splitTruthy(SubSeq(s, i + 1, Len(s)), sep)
  ELSE IF s = "" THEN <<>> ELSE <<s>>

\* The same, with the whole of s as the only piece when none is left.
splitNonEmpty(s, sep) ==
  IF splitTruthy(s, sep) = <<>> THEN <<s>> ELSE splitTruthy(s, sep)

\* s.split(sep) for a one-character separator: never drops an empty piece,
\* and "" splits into the one-element list <<"">>.
RECURSIVE split(_, _)
split(s, sep) ==
  IF \E i \in 1..Len(s) : CharAt(s, i) = sep
  THEN LET i == CHOOSE k \in 1..Len(s) :
                 CharAt(s, k) = sep /\ \A j \in 1..(k - 1) : CharAt(s, j) # sep
       IN  <<SubSeq(s, 1, i - 1)>> \o split(SubSeq(s, i + 1, Len(s)), sep)
  ELSE <<s>>

RECURSIVE join(_, _)
join(parts, sep) ==
  IF parts = <<>> THEN ""
  ELSE IF Len(parts) = 1 THEN parts[1]
  ELSE parts[1] \o sep \o join(Tail(parts), sep)

Digits == {"0", "1", "2", "3", "4", "5", "6", "7", "8", "9"}

\* The length of the longest prefix of s made of digits.
RECURSIVE DigitPrefixLen(_)
DigitPrefixLen(s) ==
  IF s # "" /\ CharAt(s, 1) \in Digits THEN 1 + DigitPrefixLen(SubSeq(s, 2, Len(s))) ELSE 0

\* line.match(/^\d+\./): one or more digits, then a period, at the start.
matchNumbered(line) ==
  LET n == DigitPrefixLen(line)
  IN  n >= 1 /\ Len(line) > n /\ CharAt(line, n + 1) = "."

(***************************************************************************)
(* Messages.  A body that is not a string (missing, a number, an object)   *)
(* is a record whose kind is not "string"; str is then what the value      *)
(* would read as if it were wrongly taken for text.                        *)
(***************************************************************************)

safeContentUnchecked(m) == m.content.str

\* typeof message.content === 'string' ? message.content : ''
safeContent(m) == IF m.content.kind = "string" THEN m.content.str ELSE ""

\* const lines = safeContent.split('\n')
Lines(m) == split(safeContent(m), "\n")

\* ASCII stand-ins for the three visitor-type marker glyphs and for the
\* typographic apostrophe, which the module's character set cannot hold.
GuestGlyph == "#g"

VendorGlyph == "#v"

MeetingGlyph == "#m"

ApostropheClass == {"^", "'"}

\* s.replace(/[<apostrophes>]/g, "'"), computed by halves.
RECURSIVE replaceApostrophes(_)
replaceApostrophes(s) ==
  IF Len(s) <= 1 THEN (IF s \in ApostropheClass THEN "'" ELSE s)
  ELSE LET h == Len(s) \div 2
       IN  replaceApostrophes(SubSeq(s, 1, h)) \o replaceApostrophes(SubSeq(s, h + 1, Len(s)))

\* line.startsWith(glyph), without the trim.
startsWithGlyphUntrimmed(line) ==
  startsWith(line, GuestGlyph) \/ startsWith(line, VendorGlyph) \/ startsWith(line, MeetingGlyph)

startsWithGlyph(line) ==
  LET t == trim(line)
  IN  startsWith(t, GuestGlyph) \/ startsWith(t, VendorGlyph) \/ startsWith(t, MeetingGlyph)

(***************************************************************************)
(* CardQuestion.  The employee-match test and the match list are written   *)
(* identically in ChatBubble and (the test) in shouldShowInputField.       *)
(***************************************************************************)

isEmployeeSelection(lines) ==
  LET l0 == toLowerCase(lines[1])
  IN  includes(l0, "found") /\ includes(l0, "match")

CardIsCompletionMessage(m) ==
  LET lower == toLowerCase(safeContent(m))
  IN  m.type = "bot" /\
      (\/ includes(lower, "registration is complete")
       \/ includes(lower, "registration successful")
       \/ includes(lower, "start new registration")
       \/ includes(lower, "please come back within 30 minutes before your scheduled time"))

\* The counter as it would be were it declared outside the component: each
\* run goes on from where the last one stopped.
CounterCarried == counter

\* let counter = 1, at the start of every run of the component.
CounterStart == 1

\* lines.filter(...).map(name => ({display: name.trim(), value: String(counter++)}))
isEmployeeNameLine(line) ==
  LET l == toLowerCase(line)
  IN  ~includes(l, "found") /\ ~includes(l, "none of these") /\ trim(line) # ""

\* The same list with the counter started at 0.
employeeNamesFromZero(lines) ==
  IF isEmployeeSelection(lines)
  THEN LET names == SelectSeq(lines, isEmployeeNameLine)
       IN  [i \in 1..Len(names) |-> [display |-> trim(names[i]), value |-> ToString(i - 1)]]
  ELSE <<>>

employeeNames(lines) ==
  IF isEmployeeSelection(lines)
  THEN LET names == SelectSeq(lines, isEmployeeNameLine)
       IN  [i \in 1..Len(names) |->
              [display |-> trim(names[i]), value |-> ToString(CounterStart + i - 1)]]
  ELSE <<>>

\* The value of counter once employeeNames is built.
CounterAfter(m) == CounterStart + Len(employeeNames(Lines(m)))

nonEmployeeLines(lines) ==
  IF isEmployeeSelection(lines)
  THEN <<[display |-> "None of these / Enter a different name", value |-> "0"]>>
  ELSE <<>>

CardIsAdminSupportConfirmation(m) ==
  LET lower == toLowerCase(safeContent(m))
  IN  m.type = "bot" /\
      includes(lower, "admin support team") /\
      includes(lower, "your check-in has been recorded") /\
      includes(lower, "name:") /\ includes(lower, "cnic:") /\ includes(lower, "phone:") /\
      includes(lower, "host:") /\ includes(lower, "service:")

CardIsConfirmation(m) ==
  LET safe  == safeContent(m)
      lower == toLowerCase(safe)
  IN  m.type = "bot" /\
      (\/ (includes(lower, "confirm") /\ includes(lower, "edit"))
       \/ (includes(safe, "[confirm]") /\ includes(safe, "[edit]"))
       \/ (includes(lower, "confirm") /\
             (includes(lower, "final check") \/ includes(lower, "please review")))
       \/ CardIsAdminSupportConfirmation(m))

isSummaryLine(line) ==
  LET l == toLowerCase(line)
  IN  \/ includes(l, "name:") \/ includes(l, "cnic:") \/ includes(l, "phone:")
      \/ includes(l, "host:") \/ includes(l, "purpose:") \/ includes(l, "supplier:")
      \/ includes(l, "email:") \/ includes(l, "meeting:")

CardSummaryInfo(m, lines) ==
  IF CardIsConfirmation(m) THEN SelectSeq(lines, isSummaryLine) ELSE <<>>

CardPrompt(m, lines) ==
  IF isEmployeeSelection(lines)
  THEN lines[1]
  ELSE LET conf == CardIsConfirmation(m)
           keep(line) == /\ ~matchNumbered(line)
                         /\ ~startsWithGlyph(line)
                         /\ ~(conf /\ isSummaryLine(line))
                         /\ trim(line) # ""
       IN  join(SelectSeq(lines, keep), " ")

emojiOptionUnmapped(line) == [display |-> trim(line), value |-> trim(line)]

emojiOption(line) ==
  IF includes(line, "Guest") THEN [display |-> trim(line), value |-> "guest"]
  ELSE IF includes(line, "Vendor") THEN [display |-> trim(line), value |-> "vendor"]
  ELSE IF includes(line, "Meeting") THEN [display |-> trim(line), value |-> "prescheduled"]
  ELSE [display |-> trim(line), value |-> trim(line)]

CardEmojiOptions(lines) ==
  LET marked == SelectSeq(lines, startsWithGlyph)
  IN  [i \in 1..Len(marked) |-> emojiOption(marked[i])]

IntroGreeting ==
  "Oh look, another human at the gates of innovation. I'm your AI receptionist, not a therapist, so let's keep this short. You are:"

CardIsIntroGreeting(prompt) == includes(replaceApostrophes(trim(prompt)), IntroGreeting)

CardVisitorTypeButtons(prompt) ==
  IF CardIsIntroGreeting(prompt)
  THEN << [display |-> "#g Guest - here to sip coffee and nod?", value |-> "guest"],
          [display |-> "#v Vendor - bless us with cardboard and chaos?", value |-> "vendor"],
          [display |-> "#m Meeting - how official of you.", value |-> "prescheduled"],
          [display |-> "CV / Interview / Joiner - chasing dreams or HR already owns you?",
           value |-> "cv drop / interview / new joiner"],
          [display |-> "Admin Support - External maintenance personnel reporting in?",
           value |-> "admin support"] >>
  ELSE <<>>

CardCvPrompt(prompt) ==
  LET p == toLowerCase(prompt)
  IN  includes(p, "cv drop") /\ includes(p, "interview") /\ includes(p, "new joiner")

CardCvFlowButtons(prompt) ==
  IF CardCvPrompt(prompt)
  THEN << [display |-> "CV Drop", value |-> "cv drop"],
          [display |-> "Interview", value |-> "interview"],
          [display |-> "New Joiner", value |-> "new joiner"] >>
  ELSE <<>>

CardAdminSupportPrompt(prompt) ==
  LET p == toLowerCase(prompt)
  IN  includes(p, "admin support") /\ includes(p, "who are you here as")

CardAdminSupportButtons(prompt) ==
  IF CardAdminSupportPrompt(prompt)
  THEN << [display |-> "Plumber - here to check the pipes?", value |-> "plumber"],
          [display |-> "Electrician - got wires to fix?", value |-> "electrician"],
          [display |-> "Carpenter - on-site for repairs?", value |-> "carpenter"],
          [display |-> "Painter - paintwork duty today?", value |-> "painter"],
          [display |-> "Other - something else?", value |-> "other"] >>
  ELSE <<>>

\* const [num, text] = option.split('.'): the label cut at its first period.
CardNumberedOptionCut(option) ==
  LET parts == split(option, ".")
  IN  [display |-> trim(parts[2]), value |-> parts[1]]

\* const [num, ...textParts] = option.split('.'); label textParts.join('.').trim()
CardNumberedOption(option) ==
  LET parts == split(option, ".")
  IN  [display |-> trim(join(Tail(parts), ".")), value |-> parts[1]]

Tagged(group, opts) ==
  [i \in 1..Len(opts) |->
     [group |-> group, display |-> opts[i].display, value |-> opts[i].value]]

\* What the card draws for a message: the prompt heading, the summary block
\* and the buttons, in the order of the markup, each with the string its
\* onClick passes to onSelect.
CardQuestion(m) ==
  LET lines      == Lines(m)
      options    == SelectSeq(lines, matchNumbered)
      isEmp      == isEmployeeSelection(lines)
      isDone     == CardIsCompletionMessage(m)
      isConf     == CardIsConfirmation(m)
      prompt     == CardPrompt(m, lines)
      emoji      == CardEmojiOptions(lines)
      visitor    == CardVisitorTypeButtons(prompt)
      cv         == CardCvFlowButtons(prompt)
      admin      == CardAdminSupportButtons(prompt)
      showButtons == m.type = "bot" /\
                       (Len(options) > 0 \/ Len(emoji) > 0 \/ isConf \/ isEmp \/ isDone
                          \/ Len(admin) > 0)
      grid       == showButtons \/ Len(visitor) > 0 \/ Len(cv) > 0 \/ Len(admin) > 0
  IN  [ prompt     |-> prompt,
        showPrompt |-> ~CardCvPrompt(prompt) /\ ~CardAdminSupportPrompt(prompt),
        summary    |-> CardSummaryInfo(m, lines),
        buttons    |->
          IF ~grid THEN <<>>
          ELSE (IF isDone
                THEN <<[group |-> "restart", display |-> "Start New Registration",
                        value |-> "new"]>>
                ELSE <<>>)
               \o Tagged("visitorType", visitor)
               \o (IF isEmp
                   THEN Tagged("employee", employeeNames(lines))
                          \o Tagged("none", nonEmployeeLines(lines))
                   ELSE <<>>)
               \o (IF ~isEmp
                   THEN Tagged("numbered",
                               [i \in 1..Len(options) |-> CardNumberedOption(options[i])])
                   ELSE <<>>)
               \o Tagged("emoji", emoji)
               \o Tagged("cvFlow", cv)
               \o Tagged("adminSupport", admin)
               \o (IF isConf
                   THEN << [group |-> "confirm", display |-> "Confirm", value |-> "confirm"],
                           [group |-> "confirm", display |-> "Edit", value |-> "edit"] >>
                   ELSE <<>>) ]

(***************************************************************************)
(* ChatBubble                                                              *)
(***************************************************************************)

BubbleIsCompletionMessage(m) ==
  LET lower == toLowerCase(safeContent(m))
  IN  m.type = "bot" /\
      (\/ includes(lower, "registration is complete")
       \/ (includes(lower, "registration successful") /\
             includes(lower, "rebel presence incoming")))

\* lines.find(line => line.trim() && !line.match(/^\d+\./)) || safeContent
BubblePrompt(m, lines) ==
  LET keep(line) == trim(line) # "" /\ ~matchNumbered(line)
      found == SelectSeq(lines, keep)
  IN  IF found # <<>> THEN found[1] ELSE safeContent(m)

BubbleIsConfirmation(m, prompt) ==
  LET p == toLowerCase(prompt)
  IN  m.type = "bot" /\
      (\/ (includes(p, "confirm") /\ includes(p, "edit"))
       \/ (includes(prompt, "[confirm]") /\ includes(prompt, "[edit]"))
       \/ (includes(p, "confirm") /\
             (includes(p, "final check") \/ includes(p, "please review"))))

isBubbleInfoLine(line) ==
  LET l == toLowerCase(line)
  IN  \/ includes(l, "name:") \/ includes(l, "cnic:") \/ includes(l, "phone:")
      \/ includes(l, "host:") \/ includes(l, "purpose:")

BubbleSummaryBlock(m, lines, prompt) ==
  IF BubbleIsConfirmation(m, prompt) /\ Len(lines) > 1
  THEN SelectSeq(lines, isBubbleInfoLine)
  ELSE <<>>

BubbleIsVisitorTypePrompt(m, prompt) ==
  LET p == toLowerCase(prompt)
  IN  m.type = "bot" /\
      (includes(p, "please select your visitor type") \/ includes(p, "select your visitor type"))

visitorTypeMap ==
  ("i am here as a guest" :> "1") @@ ("i am a vendor" :> "2") @@
  ("i have a pre-scheduled meeting" :> "3")

\* The numbered branch: option.match(/^(\d+)\.\s*(.*)$/), where "." stops at
\* a carriage return, and the label option.replace(/^\d+\.\s*/, '').
BubbleNumberedOption(m, option, prompt) ==
  LET n       == DigitPrefixLen(option)
      num     == SubSeq(option, 1, n)
      rest    == trimStart(SubSeq(option, n + 2, Len(option)))
      matched == ~includes(rest, "\r")
      valueToSend ==
        IF matched
        THEN IF includes(toLowerCase(prompt), "select your supplier") THEN trim(rest) ELSE num
        ELSE option
      lower   == trim(toLowerCase(rest))
  IN  [ display |-> rest,
        value   |-> IF BubbleIsVisitorTypePrompt(m, prompt) /\ lower \in DOMAIN visitorTypeMap
                    THEN visitorTypeMap[lower]
                    ELSE valueToSend ]

ChatBubble(m) ==
  LET lines   == Lines(m)
      options == SelectSeq(lines, matchNumbered)
      isEmp   == isEmployeeSelection(lines)
      isDone  == BubbleIsCompletionMessage(m)
      prompt  == BubblePrompt(m, lines)
      isConf  == BubbleIsConfirmation(m, prompt)
      showButtons == m.type = "bot" /\ (Len(options) > 0 \/ isConf \/ isEmp \/ isDone)
  IN  IF ~showButtons
      THEN [prompt |-> safeContent(m), summary |-> <<>>, buttons |-> <<>>]
      ELSE [ prompt  |-> prompt,
             summary |-> BubbleSummaryBlock(m, lines, prompt),
             buttons |->
               IF isConf
               THEN << [group |-> "confirm", display |-> "Confirm", value |-> "confirm"],
                       [group |-> "confirm", display |-> "Edit", value |-> "edit"] >>
               ELSE IF isEmp
               THEN Tagged("employee", employeeNames(lines))
                      \o Tagged("none", nonEmployeeLines(lines))
               ELSE IF isDone
               THEN <<[group |-> "restart", display |-> "Start New Registration",
                       value |-> "ok"]>>
               ELSE Tagged("numbered",
                           [i \in 1..Len(options) |->
                              BubbleNumberedOption(m, options[i], prompt)]) ]

(***************************************************************************)
(* shouldShowInputField                                                    *)
(***************************************************************************)

InputPrompt(lines) ==
  IF isEmployeeSelection(lines)
  THEN lines[1]
  ELSE LET keep(line) == ~matchNumbered(line) /\ trim(line) # ""
       IN  join(SelectSeq(lines, keep), " ")

InputIsConfirmation(prompt) ==
  LET p == toLowerCase(prompt)
  IN  \/ (includes(p, "confirm") /\ includes(p, "edit"))
      \/ (includes(prompt, "[confirm]") /\ includes(prompt, "[edit]"))
      \/ (includes(p, "confirm") /\
            (includes(p, "final check") \/ includes(p, "please review")))

InputIsCompletionMessage(m) ==
  includes(toLowerCase(safeContent(m)), "registration is complete")

InputKeyword(lower) ==
  \/ includes(lower, "cnic") \/ includes(lower, "phone")
  \/ includes(lower, "mobile number") \/ includes(lower, "mobile no")
  \/ includes(lower, "phone number") \/ includes(lower, "phone no")
  \/ includes(lower, "mobile") \/ includes(lower, "name")
  \/ includes(lower, "host") \/ includes(lower, "host name")
  \/ includes(lower, "purpose")
  \/ (includes(lower, "enter") /\ ~includes(lower, "none of these"))

shouldShowInputField(m) ==
  IF m.type # "bot" THEN FALSE
  ELSE LET lines   == Lines(m)
           options == SelectSeq(lines, matchNumbered)
       IN  /\ InputKeyword(toLowerCase(safeContent(m)))
           /\ Len(options) = 0
           /\ ~isEmployeeSelection(lines)
           /\ ~InputIsConfirmation(InputPrompt(lines))
           /\ ~InputIsCompletionMessage(m)

(***************************************************************************)
(* The messages classified.  A bot turn is any text of at most MaxLines    *)
(* lines drawn from a vocabulary of backend lines, or a body that is no    *)
(* string; a user turn is one line.                                        *)
(***************************************************************************)

MaxLines == 3

\* Lines that decide which affordance a turn gets.
LineVocab ==
  { "",
    "Registration is complete",
    "Registration successful",
    "Rebel presence incoming",
    "Start new registration",
    "We found 2 matches:",
    "John Smith",
    "Please confirm or edit",
    "1. Apple",
    "2. Confirm or edit",
    "Phone: 12345",
    "Please enter your name",
    "#g Guest",
    "#v Parcel" }

\* Lines that decide what a pressed button submits.
SelectVocab ==
  { "Select your supplier",
    "Please select your visitor type",
    "1. Acme Ltd.",
    "2. I am a vendor",
    "3. 3",
    "4. Zed\r",
    "We found 2 matches:",
    "Please confirm or edit",
    "Registration is complete",
    "#g Guest",
    "#v Parcel",
    IntroGreeting }

\* Lines that decide what is extracted from a turn: match candidates, menu
\* options, marker options, summary fields and the prompt.
ExtractVocab ==
  { "",
    "We found 2 matches:",
    "Found a match, host: Ali",
    "  Sara Khan ",
    "None of these",
    "12. Acme Ltd. Co",
    "1. Apple",
    " #m Meeting room",
    "#v Parcel",
    "Please confirm or edit",
    "Email: a@b" }

LineSeqs(vocab) == UNION {[1..n -> vocab] : n \in 1..MaxLines}

NonStrings ==
  { [kind |-> "undefined", str |-> "undefined"],
    [kind |-> "number", str |-> "12345"],
    [kind |-> "object", str |-> "Registration is complete\n1. Apple"] }

Messages(vocab) ==
  {[type |-> "bot", content |-> [kind |-> "string", str |-> join(ls, "\n")]] :
     ls \in LineSeqs(vocab)}
    \cup {[type |-> "bot", content |-> c] : c \in NonStrings}
    \cup {[type |-> "user", content |-> [kind |-> "string", str |-> l]] : l \in vocab}

NoFirst == [message |-> "none"]

\* visitorInfo: {}
EmptyInfo == [f \in {} |-> ""]

\* The classifier on its own: no conversation is going on around it.
NoChat ==
  /\ messages = <<>>
  /\ currentStep = ""
  /\ visitorInfo = EmptyInfo
  /\ isLoading = FALSE
  /\ calls = <<>>
  /\ location = "/"
  /\ redirect = ""
  /\ mounted = FALSE

NoView == [prompt |-> "", summary |-> <<>>, buttons |-> <<>>]

InitOver(vocab) ==
  /\ message \in Messages(vocab)
  /\ pc = "new"
  /\ card = [prompt |-> "", showPrompt |-> FALSE, summary |-> <<>>, buttons |-> <<>>]
  /\ bubble = NoView
  /\ showInput = FALSE
  /\ pressed = 0
  /\ sent = ""
  /\ counter = 1
  /\ turn = 1
  /\ first = NoFirst
  /\ previous = NoFirst
  /\ NoChat

\* The view renders the turn: CardQuestion, ChatBubble and the input-field
\* test each classify the same message text on their own.
RenderCard ==
  /\ pc = "new"
  /\ card' = CardQuestion(message)
  /\ counter' = CounterAfter(message)
  /\ pc' = "card"
  /\ UNCHANGED <<message, bubble, showInput, pressed, sent, history, chat>>

RenderBubble ==
  /\ pc = "card"
  /\ bubble' = ChatBubble(message)
  /\ counter' = CounterAfter(message)
  /\ pc' = "bubble"
  /\ UNCHANGED <<message, card, showInput, pressed, sent, history, chat>>

CheckInputField ==
  /\ pc = "bubble"
  /\ showInput' = shouldShowInputField(message)
  /\ pc' = "shown"
  /\ UNCHANGED <<message, card, bubble, pressed, sent, counter, history, chat>>

\* onClick of the i-th button of the card: onSelect(value).
SelectCard(i) ==
  /\ pc = "shown"
  /\ i \in 1..Len(card.buttons)
  /\ pressed' = i
  /\ sent' = card.buttons[i].value
  /\ pc' = "sentCard"
  /\ UNCHANGED <<message, card, bubble, showInput, counter, history, chat>>

\* onClick of the i-th button of the bubble: onSelect?.(value).
SelectBubble(i) ==
  /\ pc = "shown"
  /\ i \in 1..Len(bubble.buttons)
  /\ pressed' = i
  /\ sent' = bubble.buttons[i].value
  /\ pc' = "sentBubble"
  /\ UNCHANGED <<message, card, bubble, showInput, counter, history, chat>>

Init == InitOver(LineVocab)

SelectInit == InitOver(SelectVocab)

ExtractInit == InitOver(ExtractVocab)

MaxTurns == 3

\* Whole bot turns, for a conversation in which turns follow one another.
TurnTexts ==
  { "We found 2 matches:\nJohn Smith\nJane Doe",
    "We found 1 match:\nSara Khan",
    "Pick one:\n1. Apple\n2. Banana",
    "Please confirm or edit\nPhone: 12345",
    "Please enter your name",
    "#g Guest\n#v Parcel",
    "Registration is complete" }

TurnMessages == {[type |-> "bot", content |-> [kind |-> "string", str |-> t]] : t \in TurnTexts}

TurnInit ==
  /\ message \in TurnMessages
  /\ pc = "new"
  /\ card = [prompt |-> "", showPrompt |-> FALSE, summary |-> <<>>, buttons |-> <<>>]
  /\ bubble = NoView
  /\ showInput = FALSE
  /\ pressed = 0
  /\ sent = ""
  /\ counter = 1
  /\ turn = 1
  /\ first = NoFirst
  /\ previous = NoFirst
  /\ NoChat

\* Another bot turn becomes the last bot message: the components are run
\* again on it, with nothing of the earlier turn passed to them.
Turn(m) ==
  /\ pc \in {"shown", "sentCard", "sentBubble"}
  /\ turn < MaxTurns
  /\ message' = m
  /\ pc' = "new"
  /\ card' = [prompt |-> "", showPrompt |-> FALSE, summary |-> <<>>, buttons |-> <<>>]
  /\ bubble' = NoView
  /\ showInput' = FALSE
  /\ pressed' = 0
  /\ sent' = ""
  /\ turn' = turn + 1
  /\ first' = IF first = NoFirst
              THEN [message |-> message, card |-> card, bubble |-> bubble, showInput |-> showInput]
              ELSE first
  /\ previous' = [message |-> message]
  /\ UNCHANGED <<counter, chat>>

Next ==
  \/ RenderCard
  \/ RenderBubble
  \/ CheckInputField
  \/ \E i \in 1..Len(card.buttons) : SelectCard(i)
  \/ \E i \in 1..Len(bubble.buttons) : SelectBubble(i)

Spec == Init /\ [][Next]_vars

SelectSpec == SelectInit /\ [][Next]_vars

ExtractSpec == ExtractInit /\ [][Next]_vars

TurnNext ==
  \/ Next
  \/ \E m \in TurnMessages : Turn(m)

TurnSpec == TurnInit /\ [][TurnNext]_vars

(***************************************************************************)
(* The conversation: App's state, handleSend, and the request that         *)
(* processMessage makes through the interceptors.  visitorInfo is a        *)
(* function from the field names present to their values; a value that may *)
(* be undefined is a sequence of at most one element.                      *)
(***************************************************************************)

Has(info, f) == f \in DOMAIN info

TruthyStr(info, f) == Has(info, f) /\ info[f] # ""

TruthyBool(info, f) == Has(info, f) /\ info[f]

Opt(info, f) == IF Has(info, f) THEN <<info[f]>> ELSE <<>>

\* a || b, for strings, for booleans, and for arrays and objects.
OrElseStr(a, b) == IF a # <<>> /\ a[1] # "" THEN a ELSE b

OrElseBool(a, b) == IF a # <<>> /\ a[1] THEN a ELSE b

OrElseAny(a, b) == IF a # <<>> THEN a ELSE b

\* {...info, f: v}; a field whose value is undefined reads as a missing one.
Put(info, f, opt) ==
  IF opt = <<>> THEN [g \in DOMAIN info \ {f} |-> info[g]] ELSE (f :> opt[1]) @@ info

\* !isNaN(Number(message)) and Number(message), for texts of decimal digits
\* (the empty text is the number 0).
IsNumeric(text) == DigitPrefixLen(trim(text)) = Len(trim(text))

DigitValue(c) == CHOOSE n \in 0..9 : ToString(n) = c

RECURSIVE NumberOf(_)
NumberOf(t) ==
  IF t = "" THEN 0
  ELSE 10 * NumberOf(SubSeq(t, 1, Len(t) - 1)) + DigitValue(CharAt(t, Len(t)))

\* handleSend: the visitorInfo prepared for the request.
UpdatedVisitorInfo(info, step, text) ==
  LET selecting == /\ step = "host"
                   /\ TruthyBool(info, "employee_selection_mode")
                   /\ IsNumeric(text)
                   /\ Has(info, "employee_matches")
                   /\ Len(info["employee_matches"]) > 0
      k  == NumberOf(trim(text))
      u1 == IF selecting /\ k \in 1..Len(info["employee_matches"])
            THEN LET selected == info["employee_matches"][k]
                 IN  Put(Put(Put(info, "host_confirmed", <<selected.displayName>>),
                             "host_email", <<selected.email>>),
                         "visitor_email",
                         OrElseStr(Opt(info, "visitor_email"), OrElseStr(Opt(info, "email"), <<"">>)))
            ELSE info
  IN  IF TruthyStr(u1, "visitor_email") THEN u1
      ELSE Put(u1, "visitor_email",
               OrElseStr(Opt(u1, "email"),
                         OrElseStr(Opt(info, "visitor_email"),
                                   OrElseStr(Opt(info, "email"), <<"">>))))

\* processMessage: rawVisitorInfo without its undefined fields.
SanitizedVisitorInfo(v) ==
  LET a == Put(v, "employee_selection_mode", <<TruthyBool(v, "employee_selection_mode")>>)
      b == Put(a, "employee_matches", OrElseAny(Opt(v, "employee_matches"), <<(<<>>)>>))
      c == Put(b, "visitor_type", OrElseStr(Opt(v, "type"), Opt(v, "visitor_type")))
      d == Put(c, "visitor_name", OrElseStr(Opt(v, "full_name"), Opt(v, "visitor_name")))
      e == Put(d, "visitor_cnic", OrElseStr(Opt(v, "cnic"), Opt(v, "visitor_cnic")))
      f == Put(e, "visitor_phone", OrElseStr(Opt(v, "phone"), Opt(v, "visitor_phone")))
      g == Put(f, "visitor_email", Opt(v, "email"))
      h == Put(g, "host_confirmed", Opt(v, "host"))
  IN  h

BotTurn(text) == [type |-> "bot", content |-> [kind |-> "string", str |-> text]]

UserTurn(text) == [type |-> "user", content |-> [kind |-> "string", str |-> text]]

TypographicApostrophe == CHOOSE c \in ApostropheClass : c # "'"

\* The greeting of INITIAL_STATE, "#e" standing for its opening glyph and "-"
\* for its dashes.
Greeting ==
  "#e Oh look, another human at the gates of innovation.  \n"
    \o "I" \o TypographicApostrophe \o "m your AI receptionist, not a therapist, so let"
    \o TypographicApostrophe \o "s keep this short.\n\n"
    \o "You are:\n"
    \o "#g Guest - here to sip coffee and nod?  \n"
    \o "#v Vendor - bless us with cardboard and chaos?  \n"
    \o "#m Meeting - how official of you."

Apology ==
  "I apologize, but I encountered an error processing your request. "
    \o "Please try again or contact support."

INITIAL_STATE ==
  [messages |-> <<BotTurn(Greeting)>>, currentStep |-> "visitor_type",
   visitorInfo |-> EmptyInfo, isLoading |-> FALSE]

NoMessage == [type |-> "none", content |-> [kind |-> "undefined", str |-> ""]]

\* A find on the list as it stands, oldest first.
firstBotMessage(msgs) ==
  LET bots == {i \in DOMAIN msgs : msgs[i].type = "bot"}
  IN  IF bots = {} THEN NoMessage ELSE msgs[CHOOSE i \in bots : \A j \in bots : i <= j]

\* [...messages].reverse().find(message => message.type === 'bot')
lastBotMessage(msgs) ==
  LET bots == {i \in DOMAIN msgs : msgs[i].type = "bot"}
  IN  IF bots = {} THEN NoMessage ELSE msgs[CHOOSE i \in bots : \A j \in bots : j <= i]

\* StackedCardContainer's
\* [...messages].reverse().filter(message => message.type === 'bot').slice(0, 3):
\* the cards of its stack, of which only the one at index 0 takes clicks.
lastBotMessages(msgs) ==
  LET reversed == [i \in 1..Len(msgs) |-> msgs[Len(msgs) + 1 - i]]
      bots == SelectSeq(reversed, LAMBDA m : m.type = "bot")
  IN  SubSeq(bots, 1, IF Len(bots) < 3 THEN Len(bots) ELSE 3)

BlankCard == [prompt |-> "", showPrompt |-> FALSE, summary |-> <<>>, buttons |-> <<>>]

MaxSends == 3

\* What the visitor types into ChatInput (trimmed, never empty).
TypedTexts == {"Ali", "2"}

employee_matches ==
  << [displayName |-> "John Smith", email |-> "john@dpl"],
     [displayName |-> "Jane Doe", email |-> "jane@dpl"] >>

\* A JSON value of a reply body: a string, or something that is not one.
Str(text) == [kind |-> "string", str |-> text]

Num(digits) == [kind |-> "number", str |-> digits]

Missing == [kind |-> "undefined", str |-> ""]

Obj(f) == [kind |-> "object", obj |-> f]

NotObj(k) == [kind |-> k, obj |-> EmptyInfo]

\* Bodies of the backend's answers to /process-message/: four well-formed
\* ones, and nine in which one part is missing, empty or of another type.
Replies ==
  { [response |-> Str("Pick one:\n1. Apple\n2. Banana"), next_step |-> Str("purpose"),
     visitor_info |-> Obj("visitor_type" :> "guest")],
    [response |-> Str("We found 2 matches:\nJohn Smith\nJane Doe"), next_step |-> Str("host"),
     visitor_info |-> Obj(("employee_selection_mode" :> TRUE) @@
                          ("employee_matches" :> employee_matches))],
    [response |-> Str("Please enter the name of the person you're scheduled to meet with"),
     next_step |-> Str("host"),
     visitor_info |-> Obj("host_requested" :> "Zed")],
    [response |-> Str("Registration is complete"), next_step |-> Str("complete"),
     visitor_info |-> Obj(("registration_completed" :> TRUE) @@ ("host_confirmed" :> "John Smith"))],
    [response |-> Missing, next_step |-> Str("host"), visitor_info |-> Obj(EmptyInfo)],
    [response |-> Str(""), next_step |-> Str("host"), visitor_info |-> Obj(EmptyInfo)],
    [response |-> Num("42"), next_step |-> Str("host"), visitor_info |-> Obj(EmptyInfo)],
    [response |-> Str("Please enter your name"), next_step |-> Missing, visitor_info |-> Obj(EmptyInfo)],
    [response |-> Str("Please enter your name"), next_step |-> Str(""), visitor_info |-> Obj(EmptyInfo)],
    [response |-> Str("Please enter your name"), next_step |-> Num("7"), visitor_info |-> Obj(EmptyInfo)],
    [response |-> Str("Please enter your name"), next_step |-> Str("name"), visitor_info |-> NotObj("undefined")],
    [response |-> Str("Please enter your name"), next_step |-> Str("name"), visitor_info |-> NotObj("null")],
    [response |-> Str("Please enter your name"), next_step |-> Str("name"), visitor_info |-> NotObj("string")] }

\* !value: undefined, null, the empty string (the numbers here are not 0).
Falsy(v) == v.kind \in {"undefined", "null"} \/ (v.kind = "string" /\ v.str = "")

\* A validation that tests presence only, not type.
ValidReplyUntyped(r) ==
  ~Falsy(r.response) /\ ~Falsy(r.next_step) /\ r.visitor_info.kind \notin {"undefined", "null"}

\* processMessage accepts the body: none of its three throws fires.
ValidReply(r) ==
  /\ ~(Falsy(r.response) \/ r.response.kind # "string")
  /\ ~(Falsy(r.next_step) \/ r.next_step.kind # "string")
  /\ ~(r.visitor_info.kind \in {"undefined", "null"} \/ r.visitor_info.kind # "object")

\* HTTP statuses of a failed request; 0 is a request that got no response.
ErrorStatuses == {0, 401, 403, 429, 500}

ClearsSelection(response) ==
  /\ includes(toLowerCase(trim(response)),
              "please enter the name of the person you're scheduled to meet with")
  /\ ~includes(response, "Type 'confirm' to proceed")

\* The visitorInfo that the reply leaves in the state.
MergedVisitorInfo(prev, reply, response) ==
  LET new == IF ~TruthyBool(reply, "registration_completed") /\ ClearsSelection(response)
             THEN Put(Put(reply, "employee_selection_mode", <<FALSE>>),
                      "employee_matches", <<(<<>>)>>)
             ELSE reply
      a == Put(new @@ prev, "host_confirmed",
               OrElseStr(Opt(new, "host_confirmed"), Opt(prev, "host_confirmed")))
      b == Put(a, "host_email", OrElseStr(Opt(new, "host_email"), Opt(prev, "host_email")))
      c == Put(b, "employee_selection_mode",
               OrElseBool(Opt(new, "employee_selection_mode"), Opt(prev, "employee_selection_mode")))
  IN  Put(c, "employee_matches",
          OrElseAny(Opt(new, "employee_matches"), Opt(prev, "employee_matches")))

\* Every text that a bot turn of the session carries.
BotTexts ==
  {Greeting, Apology} \cup {r.response.str : r \in {q \in Replies : ValidReply(q)}}

\* CardQuestion and its counter on each of those texts, computed once.
CardOf == [t \in BotTexts |-> CardQuestion(BotTurn(t))]

CounterOf == [t \in BotTexts |-> CounterAfter(BotTurn(t))]

\* ChatContainer renders the card of the last bot message, if there is one.
Shows(msgs) ==
  LET last == lastBotMessage(msgs)
  IN  /\ message' = last
      /\ card' = IF last = NoMessage THEN BlankCard ELSE CardOf[last.content.str]
      /\ counter' = IF last = NoMessage THEN counter ELSE CounterOf[last.content.str]
      /\ UNCHANGED <<pc, bubble, showInput, pressed, sent, history>>

\* Buttons of the card that carry disabled={isLoading}.
DisabledWhileLoading == {"visitorType", "emoji", "cvFlow", "adminSupport", "confirm"}

ChatInit ==
  /\ messages = INITIAL_STATE.messages
  /\ currentStep = INITIAL_STATE.currentStep
  /\ visitorInfo = INITIAL_STATE.visitorInfo
  /\ isLoading = INITIAL_STATE.isLoading
  /\ calls = <<>>
  /\ location = "/"
  /\ redirect = ""
  /\ mounted = FALSE
  /\ message = lastBotMessage(INITIAL_STATE.messages)
  /\ card = CardOf[Greeting]
  /\ pc = "new"
  /\ bubble = NoView
  /\ showInput = FALSE
  /\ pressed = 0
  /\ sent = ""
  /\ counter = 1
  /\ turn = 1
  /\ first = NoFirst
  /\ previous = NoFirst

\* setState(INITIAL_STATE)
resetChat ==
  /\ messages' = INITIAL_STATE.messages
  /\ currentStep' = INITIAL_STATE.currentStep
  /\ visitorInfo' = INITIAL_STATE.visitorInfo
  /\ isLoading' = INITIAL_STATE.isLoading

\* handleSend up to its await: in step 'complete' a reset and nothing else,
\* otherwise the user turn, isLoading, and the request handed to axios, which
\* first runs the request interceptor.
handleSend(text) ==
  IF currentStep = "complete" /\ ~isLoading
  THEN resetChat /\ UNCHANGED calls
  ELSE /\ Len(calls) < MaxSends
       /\ messages' = Append(messages, UserTurn(text))
       /\ isLoading' = TRUE
       /\ calls' = Append(calls,
            [ url        |-> "/process-message/",
              text       |-> text,
              phase      |-> "auth",
              checked    |-> "none",
              rejection  |-> "",
              step       |-> currentStep,
              info       |-> SanitizedVisitorInfo(UpdatedVisitorInfo(visitorInfo, currentStep, text)),
              userAt     |-> Len(messages) + 1,
              infoBefore |-> visitorInfo ])
       /\ UNCHANGED <<currentStep, visitorInfo>>

\* ChatInput.handleSubmit
SubmitText(t) ==
  /\ location = "/"
  /\ ~isLoading
  /\ handleSend(t)
  /\ UNCHANGED <<location, redirect, mounted>>
  /\ Shows(messages')

\* onClick of the i-th button of the card shown: onSelect is handleSend.
PressButton(i) ==
  /\ location = "/"
  /\ i \in DOMAIN card.buttons
  /\ card.buttons[i].group \in DisabledWhileLoading => ~isLoading
  /\ handleSend(card.buttons[i].value)
  /\ UNCHANGED <<location, redirect, mounted>>
  /\ Shows(messages')

\* The Start Over button of ChatInput.
StartOver ==
  /\ location = "/"
  /\ ~isLoading
  /\ resetChat
  /\ UNCHANGED <<calls, location, redirect, mounted>>
  /\ Shows(messages')

\* App's effect on mount: isAuthenticated() returns ok.
MountCheck(ok) ==
  /\ location = "/"
  /\ ~mounted
  /\ mounted' = TRUE
  /\ messages' = IF ok THEN messages ELSE <<>>
  /\ UNCHANGED <<currentStep, visitorInfo, isLoading, calls, location, redirect>>
  /\ Shows(messages')

\* An interceptor that lets every request out unchecked.
ChecksNothing(url) == FALSE

\* config.url?.includes('/auth/') is false: the interceptor checks the session.
NeedsAuthCheck(url) == ~includes(url, "/auth/")

\* The catch of handleSend. The error it catches is only logged; the call
\* keeps the one an interceptor rejected it with, if one did.
Fail(i, rejection) ==
  /\ messages' = Append(messages, BotTurn(Apology))
  /\ isLoading' = FALSE
  /\ calls' = [calls EXCEPT ![i].phase = "failed", ![i].rejection = rejection,
                            ![i].checked = IF calls[i].phase = "auth" THEN "false" ELSE @]
  /\ UNCHANGED <<currentStep, visitorInfo>>

\* The request interceptor: checkAuthAndRedirect() returned true, the
\* request goes out.
AuthPass(i) ==
  /\ location # "/login"
  /\ i \in DOMAIN calls
  /\ calls[i].phase = "auth"
  /\ NeedsAuthCheck(calls[i].url)
  /\ calls' = [calls EXCEPT ![i].phase = "posted", ![i].checked = "true"]
  /\ UNCHANGED <<messages, currentStep, visitorInfo, isLoading, location, redirect, mounted>>
  /\ Shows(messages)

\* The request interceptor: checkAuthAndRedirect() returned false, after
\* saving the path and sending the browser to /login.
CheckFails(i) ==
  /\ location # "/login"
  /\ i \in DOMAIN calls
  /\ calls[i].phase = "auth"
  /\ NeedsAuthCheck(calls[i].url)
  /\ redirect' = location
  /\ location' = "/login"

\* The interceptor rejects the request of a send, which never goes out, and
\* handleSend catches the rejection.
AuthReject(i) ==
  /\ CheckFails(i)
  /\ Fail(i, "Authentication required")
  /\ UNCHANGED mounted
  /\ Shows(messages')

\* The backend answers with a body r: the rest of processMessage, then the
\* rest of handleSend.
Reply(i, r) ==
  /\ location = "/"
  /\ i \in DOMAIN calls
  /\ calls[i].phase = "posted"
  /\ IF ValidReply(r)
     THEN /\ messages' = Append(messages, BotTurn(r.response.str))
          /\ currentStep' = r.next_step.str
          /\ visitorInfo' = MergedVisitorInfo(visitorInfo, r.visitor_info.obj, r.response.str)
          /\ isLoading' = FALSE
          /\ calls' = [calls EXCEPT ![i].phase = "replied"]
     ELSE Fail(i, "")
  /\ UNCHANGED <<location, redirect, mounted>>
  /\ Shows(messages')

\* The request fails with an HTTP status or without a response: the
\* response interceptor, the catch of processMessage, the catch of handleSend.
ErrorReply(i, status) ==
  /\ location = "/"
  /\ i \in DOMAIN calls
  /\ calls[i].phase = "posted"
  /\ location' = IF status \in {401, 403} THEN "/login" ELSE location
  /\ Fail(i, IF status \in {401, 403} THEN "Authentication required" ELSE "")
  /\ UNCHANGED <<redirect, mounted>>
  /\ Shows(messages')

ChatNext ==
  \/ \E t \in TypedTexts : SubmitText(t)
  \/ \E i \in DOMAIN card.buttons : PressButton(i)
  \/ StartOver
  \/ \E ok \in BOOLEAN : MountCheck(ok)
  \/ \E i \in DOMAIN calls : AuthPass(i)
  \/ \E i \in DOMAIN calls : AuthReject(i)
  \/ \E i \in DOMAIN calls : \E r \in Replies : Reply(i, r)
  \/ \E i \in DOMAIN calls : \E status \in ErrorStatuses : ErrorReply(i, status)

ChatSpec == ChatInit /\ [][ChatNext]_vars

\* The chat session in which what has been started finishes: the effect on
\* mount gets its answer, the session check of every request returns, and
\* every request that went out settles, as long as the page is there.
ChatFairSpec ==
  /\ ChatSpec
  /\ WF_vars(\E ok \in BOOLEAN : MountCheck(ok))
  /\ \A i \in 1..MaxSends :
       /\ WF_vars(AuthPass(i) \/ AuthReject(i))
       /\ WF_vars((\E r \in Replies : Reply(i, r)) \/
                  (\E status \in ErrorStatuses : ErrorReply(i, status)))

\* The session of a visitor who stays signed in and types every answer, and
\* whose every request is answered with a body.
ReplyNext ==
  \/ \E t \in TypedTexts : SubmitText(t)
  \/ \E i \in DOMAIN calls : AuthPass(i)
  \/ \E i \in DOMAIN calls : \E r \in Replies : Reply(i, r)

ReplySpec == ChatInit /\ [][ReplyNext]_vars

(***************************************************************************)
(* The request interceptor on its own: requests of any caller of the api   *)
(* instance, issued from any page of the application.                      *)
(***************************************************************************)

MaxRequests == 2

\* URLs handed to the api instance: the process-message and visitor
\* endpoints, and endpoints under /auth/.
Urls == {"/process-message/", "/visitors/", "/visitors/42", "/auth/check", "/auth/logout"}

\* window.location.pathname of the page that issues the requests.
Paths == {"/", "/admin"}

InterceptInit ==
  /\ messages = INITIAL_STATE.messages
  /\ currentStep = INITIAL_STATE.currentStep
  /\ visitorInfo = INITIAL_STATE.visitorInfo
  /\ isLoading = INITIAL_STATE.isLoading
  /\ calls = <<>>
  /\ location \in Paths
  /\ redirect = ""
  /\ mounted = FALSE
  /\ message = lastBotMessage(INITIAL_STATE.messages)
  /\ card = CardOf[Greeting]
  /\ pc = "new"
  /\ bubble = NoView
  /\ showInput = FALSE
  /\ pressed = 0
  /\ sent = ""
  /\ counter = 1
  /\ turn = 1
  /\ first = NoFirst
  /\ previous = NoFirst

\* api.get, api.post, api.put or api.delete on url: axios runs the request
\* interceptor before anything is sent.
Request(url) ==
  /\ location # "/login"
  /\ Len(calls) < MaxRequests
  /\ calls' = Append(calls, [url |-> url, phase |-> "auth", checked |-> "none", rejection |-> ""])
  /\ UNCHANGED <<messages, currentStep, visitorInfo, isLoading, location, redirect, mounted>>
  /\ Shows(messages)

\* The interceptor on a URL under /auth/: the request goes out unchecked.
AuthSkip(i) ==
  /\ location # "/login"
  /\ i \in DOMAIN calls
  /\ calls[i].phase = "auth"
  /\ ~NeedsAuthCheck(calls[i].url)
  /\ calls' = [calls EXCEPT ![i].phase = "posted"]
  /\ UNCHANGED <<messages, currentStep, visitorInfo, isLoading, location, redirect, mounted>>
  /\ Shows(messages)

\* The interceptor rejects the request, which never goes out.
RequestRejected(i) ==
  /\ CheckFails(i)
  /\ calls' = [calls EXCEPT ![i].phase = "failed", ![i].checked = "false",
                            ![i].rejection = "Authentication required"]
  /\ UNCHANGED <<messages, currentStep, visitorInfo, isLoading, mounted>>
  /\ Shows(messages)

InterceptNext ==
  \/ \E url \in Urls : Request(url)
  \/ \E i \in DOMAIN calls : AuthSkip(i)
  \/ \E i \in DOMAIN calls : AuthPass(i)
  \/ \E i \in DOMAIN calls : RequestRejected(i)

InterceptSpec == InterceptInit /\ [][InterceptNext]_vars

(***************************************************************************)
(* The vocabulary of the claims: the detectors as the specification words  *)
(* them, and the directive cases a rendered view offers.                   *)
(***************************************************************************)

Shown == pc \in {"shown", "sentCard", "sentBubble"}

Text == safeContent(message)

ClaimCompletion(text) ==
  LET lower == toLowerCase(text)
  IN  \/ includes(lower, "registration is complete")
      \/ (includes(lower, "registration successful") /\
            includes(lower, "rebel presence incoming"))
      \/ includes(lower, "start new registration")
      \/ includes(lower, "please come back within 30 minutes before your scheduled time")

ClaimConfirmation(text) ==
  LET lower == toLowerCase(text)
  IN  \/ (includes(lower, "confirm") /\ includes(lower, "edit"))
      \/ (includes(text, "[confirm]") /\ includes(text, "[edit]"))
      \/ (includes(lower, "confirm") /\
            (includes(lower, "final check") \/ includes(lower, "please review")))

ClaimEmployeeMatch(text) ==
  LET l0 == toLowerCase(split(text, "\n")[1])
  IN  includes(l0, "found") /\ includes(l0, "match")

ClaimHasNumbered(text) == \E i \in DOMAIN split(text, "\n") : matchNumbered(split(text, "\n")[i])

ClaimHasEmoji(text) == \E i \in DOMAIN split(text, "\n") : startsWithGlyph(split(text, "\n")[i])

ClaimDataKeyword(text) ==
  LET lower == toLowerCase(text)
  IN  \/ \E k \in {"cnic", "phone", "mobile", "name", "host", "purpose"} : includes(lower, k)
      \/ (includes(lower, "enter") /\ ~includes(lower, "none of these"))

ClaimShowInput(text) ==
  /\ ClaimDataKeyword(text)
  /\ ~ClaimHasNumbered(text)
  /\ ~ClaimHasEmoji(text)
  /\ ~ClaimEmployeeMatch(text)
  /\ ~ClaimConfirmation(text)
  /\ ~ClaimCompletion(text)

SevenCases ==
  {"PlainText", "NumberedMenu", "EmojiMenu", "EmployeeMatchMenu", "Confirmation",
   "Completion", "FreeTextPrompt"}

GroupCase(g) ==
  CASE g = "restart" -> "Completion"
    [] g \in {"employee", "none"} -> "EmployeeMatchMenu"
    [] g = "confirm" -> "Confirmation"
    [] g = "numbered" -> "NumberedMenu"
    [] g = "emoji" -> "EmojiMenu"
    [] OTHER -> g

Groups(view) == {view.buttons[i].group : i \in DOMAIN view.buttons}

Values(view) == {view.buttons[i].value : i \in DOMAIN view.buttons}

\* The directive cases whose interactive elements a view offers; a view
\* without buttons is a plain prompt, with or without the text input.
Cases(view, input) ==
  IF view.buttons = <<>>
  THEN {IF input THEN "FreeTextPrompt" ELSE "PlainText"}
  ELSE {GroupCase(g) : g \in Groups(view)}

IsDigits(s) == s # "" /\ DigitPrefixLen(s) = Len(s)

NamesCategory(s) == includes(s, "Guest") \/ includes(s, "Vendor") \/ includes(s, "Meeting")

(***************************************************************************)
(* Claims                                                                  *)
(***************************************************************************)

\* C1: every bot message resolves to exactly one of the seven directive
\* cases: the card never offers the interactive elements of two cases for
\* one message, and never resolves to no case.
C1_ExactlyOneDirective ==
  (Shown /\ message.type = "bot") =>
    /\ Cardinality(Cases(card, showInput)) = 1
    /\ Cases(card, showInput) \subseteq SevenCases

\* C2: a bot message containing "registration is complete" resolves to
\* Completion whatever else it holds, and its restart action submits "new".
C2_CompletionPreempts ==
  (Shown /\ message.type = "bot" /\ includes(toLowerCase(Text), "registration is complete")) =>
    \A view \in {[buttons |-> card.buttons], [buttons |-> bubble.buttons]} :
      /\ Cases(view, showInput) = {"Completion"}
      /\ Values(view) = {"new"}

\* C3: a message that is neither a completion nor an employee match and
\* satisfies the confirmation detector resolves to Confirmation: no
\* digit-prefixed line is offered as a numbered option and the only submit
\* values are "confirm" and "edit".
C3_ConfirmationBeforeNumbered ==
  (Shown /\ message.type = "bot" /\ ~ClaimCompletion(Text) /\ ~ClaimEmployeeMatch(Text)
     /\ ClaimConfirmation(Text)) =>
    /\ "numbered" \notin Groups(card)
    /\ Values(card) = {"confirm", "edit"}

\* C4: a non-completion message whose first line holds "found" and "match"
\* resolves to EmployeeMatchMenu and nothing else: no numbered option and no
\* Confirm/Edit pair, whatever the later lines hold.
C4_EmployeeMatchOnly ==
  (Shown /\ message.type = "bot" /\ ~ClaimCompletion(Text) /\ ClaimEmployeeMatch(Text)) =>
    Cases(card, showInput) = {"EmployeeMatchMenu"}

\* C5: shouldShowInputField is true exactly when the text holds a
\* data-collection keyword (or "enter" without "none of these") and holds no
\* numbered line, no emoji line, no employee match, no confirmation (on the
\* full raw text) and no completion (any of the four phrasings).
C5_InputFieldIff ==
  (Shown /\ message.type = "bot") => (showInput <=> ClaimShowInput(Text))

\* C6: whenever shouldShowInputField is true, the card renders no button.
C6_InputMeansNoButtons ==
  Shown => (showInput => card.buttons = <<>>)

EmptyOf(m) == [type |-> m.type, content |-> [kind |-> "string", str |-> ""]]

\* C7: a body that is missing or not a string is classified exactly as the
\* empty string: a plain prompt that is empty, with no summary, no option and
\* no text input, in the card, the bubble and shouldShowInputField alike.
C7_MalformedIsEmpty ==
  (Shown /\ (message.content.kind # "string" \/ message.content.str = "")) =>
    /\ card = CardQuestion(EmptyOf(message))
    /\ bubble = ChatBubble(EmptyOf(message))
    /\ card.prompt = "" /\ card.summary = <<>> /\ card.buttons = <<>>
    /\ bubble.prompt = "" /\ bubble.buttons = <<>>
    /\ showInput = FALSE
    /\ Cases(card, showInput) = {"PlainText"}

C7_Witness ==
  /\ pc = "shown"
  /\ message.type = "bot"
  /\ message.content.kind = "object"
  /\ message.content.str # ""
  /\ card.buttons = <<>>

\* C8: a non-empty message always gets a non-empty prompt; when every line
\* is consumed as a numbered option, an emoji option or is blank, the prompt
\* is the first raw line.  (Read for messages whose first raw line is not
\* blank, so that the fallback itself is a non-empty prompt.)
C8_PromptNeverEmpty ==
  LET lines == split(Text, "\n")
  IN  (Shown /\ message.type = "bot" /\ trim(lines[1]) # "") =>
        /\ card.prompt # ""
        /\ (\A i \in DOMAIN lines :
              matchNumbered(lines[i]) \/ startsWithGlyph(lines[i]) \/ trim(lines[i]) = "")
             => card.prompt = lines[1]

Chosen == IF pc = "sentCard" THEN card.buttons[pressed] ELSE bubble.buttons[pressed]

C10_CompletionDetector ==
  (Shown /\ message.type = "bot") =>
    /\ CardIsCompletionMessage(message) = ClaimCompletion(Text)
    /\ BubbleIsCompletionMessage(message) = ClaimCompletion(Text)
    /\ InputIsCompletionMessage(message) = ClaimCompletion(Text)

\* The buttons of one group of a view, in the order drawn.
GroupOf(view, g) ==
  LET inGroup(b) == b.group = g
  IN  SelectSeq(view.buttons, inGroup)

\* C11: the confirmation detector is evaluated on the full raw text: it is
\* true exactly when the lowercased text holds "confirm" and "edit", or the
\* text holds "[confirm]" and "[edit]", or the lowercased text holds
\* "confirm" with "final check" or "please review"; and the card, the bubble
\* and shouldShowInputField compute the same flag for every message.
C11_ConfirmationOnFullText ==
  (Shown /\ message.type = "bot") =>
    LET lines == split(Text, "\n")
    IN  /\ CardIsConfirmation(message) = ClaimConfirmation(Text)
        /\ ("confirm" \in Groups(card)) = ClaimConfirmation(Text)
        /\ BubbleIsConfirmation(message, BubblePrompt(message, lines)) = ClaimConfirmation(Text)
        /\ InputIsConfirmation(InputPrompt(lines)) = ClaimConfirmation(Text)

ClaimIsCandidate(line) ==
  /\ trim(line) # ""
  /\ ~includes(toLowerCase(line), "found")
  /\ ~includes(toLowerCase(line), "none of these")

NoneOption == [group |-> "none", display |-> "None of these / Enter a different name", value |-> "0"]

\* The match list a view draws is the one C12 describes for the lines given.
MatchListOf(view, lines) ==
  LET cand   == SelectSeq(Tail(lines), ClaimIsCandidate)
      emp    == GroupOf(view, "employee")
      inList(b) == b.group \in {"employee", "none"}
  IN  /\ Len(emp) = Len(cand)
      /\ \A k \in DOMAIN emp :
           /\ emp[k].display = trim(cand[k])
           /\ emp[k].value = ToString(k)
           /\ emp[k].value # "0"
      /\ SelectSeq(view.buttons, inList) = emp \o <<NoneOption>>

ClaimHasGlyph(line) ==
  \E g \in {GuestGlyph, VendorGlyph, MeetingGlyph} : startsWith(trim(line), g)

ClaimEmojiValue(line) ==
  IF includes(line, "Guest") THEN "guest"
  ELSE IF includes(line, "Vendor") THEN "vendor"
  ELSE IF includes(line, "Meeting") THEN "prescheduled"
  ELSE trim(line)

ClaimIsField(line) ==
  \E k \in {"name:", "cnic:", "phone:", "host:", "purpose:", "supplier:", "email:", "meeting:"} :
    includes(toLowerCase(line), k)

\* C15: in confirmation mode the summary is exactly the lines holding a
\* field-label marker, verbatim and in order, and no line is both in the
\* summary and in the prompt; outside confirmation mode the summary is empty
\* and such lines stay in the prompt (read, for the prompt, outside
\* employee-match mode and for lines that are no option lines).
C15_SummaryPartition ==
  (Shown /\ message.type = "bot") =>
    LET lines  == split(Text, "\n")
        conf   == ClaimConfirmation(Text)
        fields == SelectSeq(lines, ClaimIsField)
    IN  /\ card.summary = (IF conf THEN fields ELSE <<>>)
        /\ bubble.summary = (IF conf THEN fields ELSE <<>>)
        /\ \A i \in DOMAIN card.summary : ~includes(card.prompt, card.summary[i])
        /\ (~conf /\ ~ClaimEmployeeMatch(Text)) =>
             \A i \in DOMAIN fields :
               (~matchNumbered(fields[i]) /\ ~ClaimHasGlyph(fields[i]))
                 => includes(card.prompt, fields[i])

ClaimPrompt(text) ==
  LET lines == split(text, "\n")
      keep(line) == /\ ~matchNumbered(line)
                    /\ ~ClaimHasGlyph(line)
                    /\ trim(line) # ""
                    /\ ~(ClaimConfirmation(text) /\ ClaimIsField(line))
  IN  IF ClaimEmployeeMatch(text) THEN lines[1] ELSE join(SelectSeq(lines, keep), " ")

\* C16: the prompt is the lines of the message without the numbered-option
\* lines, the marker lines, the empty lines and (in confirmation mode only)
\* the summary-field lines, joined in order with one space; in
\* employee-match mode it is line 0 verbatim.  The card and
\* shouldShowInputField both build it.
C16_PromptComposition ==
  (Shown /\ message.type = "bot") =>
    /\ card.prompt = ClaimPrompt(Text)
    /\ InputPrompt(split(Text, "\n")) = ClaimPrompt(Text)

LowerOf(m) ==
  [type |-> m.type, content |-> [kind |-> m.content.kind, str |-> toLowerCase(m.content.str)]]

HasBracketToken(text) ==
  includes(toLowerCase(text), "[confirm]") \/ includes(toLowerCase(text), "[edit]")

ValueSeq(view) == [i \in DOMAIN view.buttons |-> view.buttons[i].value]

\* C18: classification does not depend on letter case outside the bracket
\* tokens: a message and the same text in lower case (no bracket token in
\* it) resolve to the same directive cases and the same submit values,
\* button by button.
C18_CaseInsensitive ==
  (Shown /\ message.type = "bot" /\ ~HasBracketToken(Text)) =>
    LET low == LowerOf(message)
    IN  /\ Cases(card, showInput) = Cases(CardQuestion(low), shouldShowInputField(low))
        /\ ValueSeq(card) = ValueSeq(CardQuestion(low))

NewlineCount(text) == Cardinality({i \in 1..Len(text) : CharAt(text, i) = "\n"})

\* C19 as stated: tokenizing drops no empty line (a non-empty text has one
\* line more than it has newlines), and the line list of an empty or
\* undefined text is the empty list.
C19_EmptyTextHasNoLine ==
  Shown =>
    /\ Text # "" => Len(Lines(message)) = NewlineCount(Text) + 1
    /\ Text = "" => Lines(message) = <<>>

\* C19 as amended: every text, the empty one included, has one line more
\* than it has newlines, and joining the lines by newlines gives the text
\* back; the line list of an empty or undefined text is the single empty
\* line, on which no detector fires: empty prompt, no summary, no button,
\* no text input.
C19_TokenizeKeepsEveryLine ==
  Shown =>
    /\ Len(Lines(message)) = NewlineCount(Text) + 1
    /\ join(Lines(message), "\n") = Text
    /\ \A i \in DOMAIN Lines(message) : ~includes(Lines(message)[i], "\n")
    /\ Text = "" =>
         /\ Lines(message) = <<"">>
         /\ card.prompt = "" /\ card.summary = <<>> /\ card.buttons = <<>>
         /\ bubble.buttons = <<>>
         /\ showInput = FALSE

C19_Witness ==
  /\ pc = "shown"
  /\ message.type = "bot"
  /\ Text = "1. Apple\n\n"
  /\ Lines(message) = <<"1. Apple", "", "">>
  /\ Len(card.buttons) = 1

Fails(i) == i \in DOMAIN calls' /\ calls[i].phase # "failed" /\ calls'[i].phase = "failed"

\* C20: when the backend call of a sent message fails, exactly one bot turn
\* with the apology is appended, after the user turn of that send, isLoading
\* is false again, and currentStep and visitorInfo are what they were before
\* the send.
C20_FailureLeavesStateAsSent ==
  [][\A i \in DOMAIN calls :
       Fails(i) =>
         /\ messages' = Append(messages, BotTurn(Apology))
         /\ calls[i].userAt \in DOMAIN messages
         /\ messages[calls[i].userAt] = UserTurn(calls[i].text)
         /\ isLoading' = FALSE
         /\ currentStep' = calls[i].step
         /\ visitorInfo' = calls[i].infoBefore]_vars

IsPrefix(a, b) == Len(a) <= Len(b) /\ SubSeq(b, 1, Len(a)) = a

\* A step that restarts the conversation: Start Over, or a send in step
\* 'complete' (the restart button of the completion card is such a send).
Restarts == ~isLoading /\ resetChat

\* C21: the conversation is an append-only, newest-last feed: a turn, once
\* appended, keeps its position, speaker and text through every later step,
\* and turns are removed only by a restart of the conversation.
C21_AppendOnlyFeed == [][~Restarts => IsPrefix(messages, messages')]_vars

\* The requests that have been started and have not settled.
Outstanding == {i \in DOMAIN calls : calls[i].phase \in {"auth", "posted"}}

UserTurns(msgs) == Cardinality({i \in DOMAIN msgs : msgs[i].type = "user"})

\* C22: at most one process-message request is in flight at any time, and
\* while isLoading is true no step starts another request or appends another
\* user turn.
C22_OneRequestInFlight ==
  [][/\ Cardinality(Outstanding') <= 1
     /\ isLoading => /\ Len(calls') = Len(calls)
                     /\ UserTurns(messages') <= UserTurns(messages)]_vars

\* C23: a send in step 'host' with employee_selection_mode set and a
\* non-empty employee_matches list carries, for the text of a number k
\* between 1 and the number of matches, host_confirmed and host_email of the
\* k-th match; for "0", a number out of range or any other text it carries
\* the host_confirmed and host_email that were stored before.
C23_EmployeeSelectionPayload ==
  \A i \in DOMAIN calls :
    LET c       == calls[i]
        matches == c.infoBefore["employee_matches"]
        k       == NumberOf(c.text)
    IN  ( /\ c.step = "host"
          /\ TruthyBool(c.infoBefore, "employee_selection_mode")
          /\ Has(c.infoBefore, "employee_matches")
          /\ Len(matches) > 0 )
        => IF IsDigits(c.text) /\ k \in 1..Len(matches)
           THEN /\ Opt(c.info, "host_confirmed") = <<matches[k].displayName>>
                /\ Opt(c.info, "host_email") = <<matches[k].email>>
           ELSE /\ Opt(c.info, "host_confirmed") = Opt(c.infoBefore, "host_confirmed")
                /\ Opt(c.info, "host_email") = Opt(c.infoBefore, "host_email")

\* C24: a request to a URL that does not contain '/auth/' goes out only
\* after the authentication check made for it returned true; when the check
\* returns false the request is rejected with 'Authentication required' and
\* never goes out, the current path is saved for the redirect and the
\* browser is sent to /login; a request to a URL containing '/auth/' is
\* never checked.
C24_AuthInterceptor ==
  [][\A i \in DOMAIN calls' :
       LET c == calls'[i]
       IN  /\ (c.phase = "posted" /\ ~includes(c.url, "/auth/")) => c.checked = "true"
           /\ includes(c.url, "/auth/") => c.checked = "none"
           /\ c.checked = "false" =>
                /\ c.phase = "failed"
                /\ c.rejection = "Authentication required"
                /\ location' = "/login"
                /\ i \in DOMAIN calls /\ calls[i].phase = "auth" => redirect' = location]_vars

C24_Witness ==
  /\ Len(calls) = 2
  /\ calls[1].url = "/auth/logout" /\ calls[1].phase = "posted" /\ calls[1].checked = "none"
  /\ calls[2].url = "/visitors/42" /\ calls[2].phase = "failed" /\ calls[2].checked = "false"
  /\ location = "/login"
  /\ redirect = "/admin"

\* A body as the claim accepts it: response and next_step non-empty strings,
\* visitor_info an object.
ReplyAccepted(r) ==
  /\ r.response.kind = "string" /\ r.response.str # ""
  /\ r.next_step.kind = "string" /\ r.next_step.str # ""
  /\ r.visitor_info.kind = "object"

HostFields == {"host_confirmed", "host_email", "employee_selection_mode", "employee_matches"}

\* C25: a reply is appended as a bot turn and updates currentStep and
\* visitorInfo only if its response and next_step are non-empty strings and
\* its visitor_info is an object; any other reply is not appended and not
\* applied, and the send is handled as failed.
C25_ReplyValidation ==
  [][\A i \in DOMAIN calls : \A r \in Replies :
       (calls[i].phase = "posted" /\ calls'[i].phase # "posted" /\ Reply(i, r)) =>
         IF ReplyAccepted(r)
         THEN /\ messages' = Append(messages, BotTurn(r.response.str))
              /\ currentStep' = r.next_step.str
              /\ \A f \in DOMAIN r.visitor_info.obj \ HostFields :
                   Has(visitorInfo', f) /\ visitorInfo'[f] = r.visitor_info.obj[f]
              /\ calls'[i].phase = "replied"
         ELSE /\ messages' = Append(messages, BotTurn(Apology))
              /\ currentStep' = currentStep
              /\ visitorInfo' = visitorInfo
              /\ calls'[i].phase = "failed"]_vars

C25_Witness ==
  /\ Len(calls) = 2
  /\ calls[1].phase = "replied" /\ calls[2].phase = "failed"
  /\ Len(messages) = 5
  /\ messages[3] = BotTurn("We found 2 matches:\nJohn Smith\nJane Doe")
  /\ messages[5] = BotTurn(Apology)
  /\ currentStep = "host"
  /\ TruthyBool(visitorInfo, "employee_selection_mode")
  /\ ~isLoading

\* The step in which the request of call i, which reached the backend,
\* settles.
Settles(i) ==
  i \in DOMAIN calls /\ calls[i].phase = "posted" /\ calls'[i].phase \in {"replied", "failed"}

\* C26: every send that reaches the backend is answered: when its request
\* settles, exactly one bot turn is appended, after the user turn of that
\* send, and isLoading is false; isLoading is true exactly while a request
\* is outstanding; and a request that went out does settle, with isLoading
\* false afterwards, unless the browser has left for /login meanwhile.
C26_EverySendAnswered ==
  /\ [][/\ isLoading' <=> Outstanding' # {}
        /\ \A i \in DOMAIN calls :
             Settles(i) =>
               /\ \E t \in BotTexts : messages' = Append(messages, BotTurn(t))
               /\ calls[i].userAt \in DOMAIN messages
               /\ messages[calls[i].userAt] = UserTurn(calls[i].text)
               /\ isLoading' = FALSE]_vars
  /\ \A i \in 1..MaxSends :
       (i \in DOMAIN calls /\ calls[i].phase = "posted")
         ~> /\ i \in DOMAIN calls
            /\ calls[i].phase \in {"replied", "failed"} \/ location = "/login"
            /\ ~isLoading

\* C27: the card shows the most recent bot turn of the message list and no
\* other: the message given to CardQuestion is the last element of the list
\* whose speaker is the bot, whatever user turns follow it, and the card is
\* CardQuestion's rendering of it; a list without a bot turn shows no card.
\* The same turn is the one card of StackedCardContainer that takes clicks.
C27_CardShowsLastBotTurn ==
  IF \E i \in DOMAIN messages : messages[i].type = "bot"
  THEN \E i \in DOMAIN messages :
         /\ messages[i].type = "bot"
         /\ \A j \in DOMAIN messages : j > i => messages[j].type = "user"
         /\ message = messages[i]
         /\ card = CardOf[messages[i].content.str]
         /\ Head(lastBotMessages(messages)) = messages[i]
  ELSE /\ message = NoMessage
       /\ card = BlankCard
       /\ lastBotMessages(messages) = <<>>

C27_Witness ==
  /\ Len(messages) = 5
  /\ messages[3] = BotTurn("Pick one:\n1. Apple\n2. Banana")
  /\ messages[4].type = "user" /\ messages[5].type = "user"
  /\ message = messages[3]
  /\ Len(card.buttons) = 2
  /\ Len(lastBotMessages(messages)) = 2
  /\ isLoading

\* The conversation is the initial one although messages have been sent: it
\* has been restarted after the last send. (Every send appends a user turn,
\* and no reply carries the greeting.)
AfterReset == calls # <<>> /\ messages = INITIAL_STATE.messages

\* A step that sends a message.
Sends == Len(calls') > Len(calls)

\* C28: after a restart of the conversation (Start Over, or a send in step
\* 'complete') and until the visitor sends the next message, the conversation
\* holds the greeting alone, with step 'visitor_type' and an empty
\* visitorInfo: no step, and in particular no reply or failure of a request
\* started before the restart, appends a turn to it or changes its
\* currentStep or visitorInfo.
C28_ResetIsolatesConversation ==
  [][(AfterReset /\ ~Sends) =>
       /\ messages' = INITIAL_STATE.messages
       /\ currentStep' = INITIAL_STATE.currentStep
       /\ visitorInfo' = INITIAL_STATE.visitorInfo]_vars

====
